---- MODULE Spec2Model ----
(***************************************************************************)
(* A model of humanise.py: the section classifier                          *)
(* (extract_document_sections / reconstruct_document), the citation codec  *)
(* (protect_citations / restore_citations) and the convergence loop of     *)
(* main().  Text is a sequence of one-character strings; "\n" is a         *)
(* character like any other, so split and join are real conversions.       *)
(***************************************************************************)
EXTENDS Integers, Sequences, FiniteSets, TLC

VARIABLES
    \* ---- main(): the convergence loop
    pc,                 \* position in main()
    selected_file,      \* [stem, suffix] of the chosen file
    file_text,          \* what extract_text_from_file yields for it
    rewriter,           \* how the rewrite oracle behaves in this run
    target_percentage,
    result,             \* the last detection result
    current_percentage,
    current_text,
    humanised_text,
    version,
    files,              \* OUTPUT_DIR: output file name -> what was written
    written,            \* the output file names in the order they were written
    baseline_percentage,  \* the percentage of the initial scan
    previous_percentage,  \* current_percentage before the last detection
    rewriteCalls,       \* calls of client.messages.create
    detectCalls,        \* calls of detect_ai_in_file / detect_ai_in_text
    outcome,            \* how the run ended
    \* ---- extract_document_sections, one line per step
    seg_text,           \* the text given to extract_document_sections
    seg_lines,          \* text.split('\n')
    seg_i,              \* lines classified so far
    seg,                \* the locals of extract_document_sections
    seg_out,            \* reconstruct_document(sections)
    \* ---- the citation codec
    cod_pc,
    cod_text,
    cod_protected,
    cod_placeholders,
    cod_restored

ctlVars == <<pc, selected_file, file_text, rewriter, target_percentage, result,
             current_percentage, current_text, humanised_text, version, files,
             written, baseline_percentage, previous_percentage, rewriteCalls,
             detectCalls, outcome>>
segVars == <<seg_text, seg_lines, seg_i, seg, seg_out>>
codVars == <<cod_pc, cod_text, cod_protected, cod_placeholders, cod_restored>>
vars == <<ctlVars, segVars, codVars>>

-----------------------------------------------------------------------------
(* Characters and Python's str methods                                      *)

Chars(s) == [i \in 1..Len(s) |-> SubSeq(s, i, i)]

UpperChars == Chars("ABCDEFGHIJKLMNOPQRSTUVWXYZ")
LowerChars == Chars("abcdefghijklmnopqrstuvwxyz")
DigitChars == Chars("0123456789")
Range(f) == {f[i] : i \in DOMAIN f}
UpperSet == Range(UpperChars)
LowerSet == Range(LowerChars)
DigitSet == Range(DigitChars)
LetterSet == UpperSet \cup LowerSet
WordSet == LetterSet \cup DigitSet \cup {"_"}
SpaceSet == {" ", "\t", "\n", "\r"}

LowerOf == [c \in UpperSet |-> LowerChars[CHOOSE i \in 1..Len(UpperChars) : UpperChars[i] = c]]

\* str.lower()
Lower(s) == [i \in 1..Len(s) |-> IF s[i] \in UpperSet THEN LowerOf[s[i]] ELSE s[i]]

\* str.strip()
Strip(s) ==
    LET keep == {i \in 1..Len(s) : s[i] \notin SpaceSet}
    IN  IF keep = {} THEN <<>>
        ELSE SubSeq(s, CHOOSE i \in keep : \A j \in keep : i <= j,
                       CHOOSE i \in keep : \A j \in keep : j <= i)

\* s[i:].startswith(sub), i counted from 1
MatchesAt(s, sub, i) ==
    /\ i + Len(sub) - 1 <= Len(s)
    /\ \A k \in 1..Len(sub) : s[i + k - 1] = sub[k]

\* sub in s
Contains(s, sub) == \E i \in 1..(Len(s) + 1) : MatchesAt(s, sub, i)

\* s.find(sub), counted from 1; 0 when absent
Find(s, sub) ==
    IF Contains(s, sub)
    THEN CHOOSE i \in 1..(Len(s) + 1) :
            MatchesAt(s, sub, i) /\ \A j \in 1..(i - 1) : ~MatchesAt(s, sub, j)
    ELSE 0

\* s.replace(old, new, 1)
ReplaceFirst(s, old, new) ==
    LET p == Find(s, old)
    IN  IF p = 0 THEN s
        ELSE SubSeq(s, 1, p - 1) \o new \o SubSeq(s, p + Len(old), Len(s))

\* s.replace(old, new): every non-overlapping occurrence, left to right
RECURSIVE ReplaceAll(_, _, _)
ReplaceAll(s, old, new) ==
    LET p == Find(s, old)
    IN  IF p = 0 \/ old = <<>> THEN s
        ELSE SubSeq(s, 1, p - 1) \o new
               \o ReplaceAll(SubSeq(s, p + Len(old), Len(s)), old, new)

\* s.split('\n')
RECURSIVE Split(_, _)
Split(s, sep) ==
    LET p == Find(s, <<sep>>)
    IN  IF p = 0 THEN <<s>>
        ELSE <<SubSeq(s, 1, p - 1)>> \o Split(SubSeq(s, p + 1, Len(s)), sep)

\* '\n'.join(lines)
RECURSIVE Join(_, _)
Join(ls, sep) ==
    IF ls = <<>> THEN <<>>
    ELSE IF Len(ls) = 1 THEN ls[1]
    ELSE ls[1] \o <<sep>> \o Join(Tail(ls), sep)

\* len(s.split()): the number of maximal runs of non-space characters
WordCount(s) ==
    Cardinality({i \in 1..Len(s) :
        s[i] \notin SpaceSet /\ (i = 1 \/ s[i - 1] \in SpaceSet)})

\* str.isupper(): some cased character and no lower-case one
IsUpper(s) ==
    /\ \E i \in 1..Len(s) : s[i] \in UpperSet
    /\ \A i \in 1..Len(s) : s[i] \notin LowerSet

\* str.istitle(): upper-case only after an uncased character, lower-case
\* only after a cased one, and at least one cased character
IsTitle(s) ==
    /\ \E i \in 1..Len(s) : s[i] \in LetterSet
    /\ \A i \in 1..Len(s) :
          LET prevCased == i > 1 /\ s[i - 1] \in LetterSet
          IN  /\ s[i] \in UpperSet => ~prevCased
              /\ s[i] \in LowerSet => prevCased

\* str(n) for n >= 0
RECURSIVE IntToStr(_)
IntToStr(n) ==
    IF n < 10 THEN <<DigitChars[n + 1]>>
    ELSE IntToStr(n \div 10) \o <<DigitChars[(n % 10) + 1]>>

-----------------------------------------------------------------------------
(* Regular expressions, with the priorities of a backtracking matcher:      *)
(* Ends(r, s, i) lists, most preferred first, the positions just after a    *)
(* match of r that starts at position i of s.                               *)

RCh(set)   == [t |-> "ch", set |-> set]
RCat(a, b) == [t |-> "cat", a |-> a, b |-> b]
RAlt(a, b) == [t |-> "alt", a |-> a, b |-> b]
RStar(a)   == [t |-> "star", a |-> a]
ROpt(a)    == [t |-> "opt", a |-> a]
REnd       == [t |-> "end"]
REmpty     == [t |-> "empty"]
RPlus(a)   == RCat(a, RStar(a))

RECURSIVE RSeq(_)
RSeq(rs) == IF rs = <<>> THEN REmpty
            ELSE IF Len(rs) = 1 THEN rs[1]
            ELSE RCat(rs[1], RSeq(Tail(rs)))
RECURSIVE RLit(_)
RLit(s) == IF s = <<>> THEN REmpty
           ELSE IF Len(s) = 1 THEN RCh({s[1]})
           ELSE RCat(RCh({s[1]}), RLit(Tail(s)))
RECURSIVE RRep(_, _)
RRep(a, n) == IF n = 0 THEN REmpty ELSE IF n = 1 THEN a ELSE RCat(a, RRep(a, n - 1))

RECURSIVE Ends(_, _, _), FlatEnds(_, _, _)
Ends(r, s, i) ==
    CASE r.t = "ch"    -> IF i <= Len(s) /\ s[i] \in r.set THEN <<i + 1>> ELSE <<>>
      [] r.t = "empty" -> <<i>>
      [] r.t = "end"   -> IF i = Len(s) + 1 \/ (i = Len(s) /\ s[i] = "\n")
                          THEN <<i>> ELSE <<>>
      [] r.t = "cat"   -> FlatEnds(r.b, s, Ends(r.a, s, i))
      [] r.t = "alt"   -> Ends(r.a, s, i) \o Ends(r.b, s, i)
      [] r.t = "opt"   -> Ends(r.a, s, i) \o <<i>>
      [] r.t = "star"  -> FlatEnds(r, s, SelectSeq(Ends(r.a, s, i), LAMBDA j : j > i))
                            \o <<i>>
FlatEnds(r, s, js) ==
    IF js = <<>> THEN <<>>
    ELSE Ends(r, s, Head(js)) \o FlatEnds(r, s, Tail(js))

\* re.match(r, s) is not None
ReMatch(r, s) == Ends(r, s, 1) # <<>>

\* re.finditer(r, s): the matches <<start, end>> (end exclusive), left to
\* right, each search resuming where the previous match ended
RECURSIVE FindFrom(_, _, _, _)
FindFrom(r, s, starts, i) ==
    LET later == {j \in starts : j >= i}
    IN  IF later = {} THEN <<>>
        ELSE LET m == CHOOSE j \in later : \A k \in later : j <= k
                 e == Head(Ends(r, s, m))
             IN  <<<<m, e>>>> \o FindFrom(r, s, starts, IF e = m THEN m + 1 ELSE e)
FindIter(r, s, i) ==
    FindFrom(r, s, {j \in 1..(Len(s) + 1) : Ends(r, s, j) # <<>>}, i)

RDigit == RCh(DigitSet)
RSpace == RCh(SpaceSet)
RWord  == RCh(WordSet)
RUp    == RCh(UpperSet)
RAlpha == RCh(LetterSet)
RLow   == RCh(LowerSet)

-----------------------------------------------------------------------------
(* Module constants of humanise.py                                          *)

CITATION_PATTERNS == <<
    \* \([A-Z][a-zA-Z]+(?:\s+(?:et\s+al\.?|&|and)\s+[A-Z][a-zA-Z]+)*,?\s*\d{4}[a-z]?\)
    RSeq(<<RCh({"("}), RUp, RPlus(RAlpha),
           RStar(RSeq(<<RPlus(RSpace),
                        RAlt(RSeq(<<RLit(Chars("et")), RPlus(RSpace),
                                    RLit(Chars("al")), ROpt(RCh({"."}))>>),
                             RAlt(RCh({"&"}), RLit(Chars("and")))),
                        RPlus(RSpace), RUp, RPlus(RAlpha)>>)),
           ROpt(RCh({","})), RStar(RSpace), RRep(RDigit, 4), ROpt(RLow),
           RCh({")"})>>),
    \* \([A-Z][a-zA-Z]+\s+&\s+[A-Z][a-zA-Z]+,?\s*\d{4}\)
    RSeq(<<RCh({"("}), RUp, RPlus(RAlpha), RPlus(RSpace), RCh({"&"}),
           RPlus(RSpace), RUp, RPlus(RAlpha), ROpt(RCh({","})), RStar(RSpace),
           RRep(RDigit, 4), RCh({")"})>>),
    \* \[\d+(?:[-,]\s*\d+)*\]
    RSeq(<<RCh({"["}), RPlus(RDigit),
           RStar(RSeq(<<RCh({"-", ","}), RStar(RSpace), RPlus(RDigit)>>)),
           RCh({"]"})>>),
    \* \([A-Z][a-zA-Z]+,\s*\d{4},\s*p\.?\s*\d+\)
    RSeq(<<RCh({"("}), RUp, RPlus(RAlpha), RCh({","}), RStar(RSpace),
           RRep(RDigit, 4), RCh({","}), RStar(RSpace), RCh({"p"}),
           ROpt(RCh({"."})), RStar(RSpace), RPlus(RDigit), RCh({")"})>> ) >>

REFERENCES_KEYWORDS ==
    <<Chars("references"), Chars("bibliography"), Chars("works cited"),
      Chars("citations"), Chars("sources")>>

TITLE_PAGE_KEYWORDS ==
    <<Chars("submitted to"), Chars("submitted by"), Chars("student id"),
      Chars("student number"), Chars("registration"), Chars("course code"),
      Chars("module"), Chars("supervisor"), Chars("lecturer"),
      Chars("professor"), Chars("university"), Chars("college"),
      Chars("faculty"), Chars("department"), Chars("school of"),
      Chars("bachelor"), Chars("master"), Chars("assignment"),
      Chars("thesis"), Chars("dissertation"), Chars("project"),
      Chars("date:"), Chars("name:")>>

\* the body-start cues of extract_document_sections
BODY_START_KEYWORDS ==
    <<Chars("introduction"), Chars("abstract"), Chars("chapter 1"), Chars("1.")>>

\* ^\d+(\.\d+)*\.?\s+\w
NumberedHeadingRe ==
    RSeq(<<RPlus(RDigit), RStar(RCat(RCh({"."}), RPlus(RDigit))),
           ROpt(RCh({"."})), RPlus(RSpace), RWord>>)

\* ^(chapter|section|part|appendix)\s+\w, matched ignoring case
ChapterHeadingRe ==
    RSeq(<<RAlt(RLit(Chars("chapter")),
                RAlt(RLit(Chars("section")),
                     RAlt(RLit(Chars("part")), RLit(Chars("appendix"))))),
           RPlus(RSpace), RWord>>)

HeadingMaxLen == 100
TitlePageMaxLines == 15

-----------------------------------------------------------------------------
(* The predicates on lines                                                  *)

is_heading(line) ==
    LET text == Strip(line)
    IN  /\ text # <<>>
        /\ Len(text) < HeadingMaxLen
        /\ \/ ReMatch(NumberedHeadingRe, text)
           \/ IsUpper(text) /\ WordCount(text) <= 8
           \/ WordCount(text) <= 8 /\ IsTitle(text)
           \/ ReMatch(ChapterHeadingRe, Lower(text))

is_title_page_content(text) ==
    \E k \in DOMAIN TITLE_PAGE_KEYWORDS :
        Contains(Lower(text), TITLE_PAGE_KEYWORDS[k])

is_references_section(text) ==
    LET text_lower == Lower(Strip(text))
    IN  \E k \in DOMAIN REFERENCES_KEYWORDS :
            LET keyword == REFERENCES_KEYWORDS[k]
            IN  \/ text_lower = keyword
                \/ MatchesAt(text_lower, keyword \o <<"\n">>, 1)
                \/ ReMatch(RSeq(<<RLit(keyword), RStar(RSpace), REnd>>), text_lower)

-----------------------------------------------------------------------------
(* The citation codec                                                       *)

\* f"__CITATION_{counter}__"
Placeholder(counter) ==
    Chars("__CITATION_") \o IntToStr(counter) \o Chars("__")

\* the inner loop of protect_citations: st = [text, placeholders, counter],
\* matches = the finditer results on src, the text the pattern was run on
RECURSIVE ProtectMatches(_, _, _)
ProtectMatches(st, src, matches) ==
    IF matches = <<>> THEN st
    ELSE LET m == Head(matches)
             citation == SubSeq(src, m[1], m[2] - 1)
             placeholder == Placeholder(st.counter)
         IN  ProtectMatches(
                 [text |-> ReplaceFirst(st.text, citation, placeholder),
                  placeholders |-> Append(st.placeholders, <<placeholder, citation>>),
                  counter |-> st.counter + 1],
                 src, Tail(matches))

\* the outer loop of protect_citations, from pattern k on
RECURSIVE ProtectPatterns(_, _)
ProtectPatterns(st, k) ==
    IF k > Len(CITATION_PATTERNS) THEN st
    ELSE ProtectPatterns(
             ProtectMatches(st, st.text, FindIter(CITATION_PATTERNS[k], st.text, 1)),
             k + 1)

\* returns [text |-> protected_text, placeholders |-> the dict, in insertion order]
protect_citations(text) ==
    ProtectPatterns([text |-> text, placeholders |-> <<>>, counter |-> 0], 1)

\* restore_citations giving up at the first token the text lacks
RECURSIVE restore_citations_Checked(_, _)
restore_citations_Checked(text, placeholders) ==
    IF placeholders = <<>> THEN text
    ELSE IF ~Contains(text, Head(placeholders)[1]) THEN text
    ELSE restore_citations_Checked(
             ReplaceAll(text, Head(placeholders)[1], Head(placeholders)[2]),
             Tail(placeholders))

RECURSIVE restore_citations(_, _)
restore_citations(text, placeholders) ==
    IF placeholders = <<>> THEN text
    ELSE restore_citations(
             ReplaceAll(text, Head(placeholders)[1], Head(placeholders)[2]),
             Tail(placeholders))

-----------------------------------------------------------------------------
(* The section classifier                                                   *)

\* d[k] = v on an insertion-ordered dict, kept as a sequence of <<key, value>>
DictSet(d, k, v) ==
    IF \E i \in DOMAIN d : d[i][1] = k
    THEN [i \in DOMAIN d |-> IF d[i][1] = k THEN <<k, v>> ELSE d[i]]
    ELSE Append(d, <<k, v>>)

SegInit ==
    [title_page |-> <<>>, body |-> <<>>, references |-> <<>>, headings |-> <<>>,
     in_title_page |-> TRUE, in_references |-> FALSE, body_started |-> FALSE]

\* SegBody recording the heading under the index after the line's own
SegBody_KeyAfter(st, line) ==
    LET stripped == Strip(line)
    IN  [st EXCEPT !.headings = IF is_heading(stripped)
                                THEN DictSet(@, Len(st.body) + 1, stripped) ELSE @,
                   !.body = Append(@, line)]

\* the body-handling tail of the loop
SegBody(st, line) ==
    LET stripped == Strip(line)
    IN  [st EXCEPT !.headings = IF is_heading(stripped)
                                THEN DictSet(@, Len(st.body), stripped) ELSE @,
                   !.body = Append(@, line)]

\* a line retained in title_page
SegTitle(st, line) ==
    LET stripped == Strip(line)
        kept == [st EXCEPT !.title_page = Append(@, line)]
    IN  IF /\ is_heading(stripped)
           /\ ~is_title_page_content(stripped)
           /\ \E k \in DOMAIN BODY_START_KEYWORDS :
                 Contains(Lower(stripped), BODY_START_KEYWORDS[k])
        THEN [kept EXCEPT !.in_title_page = FALSE,
                          !.body_started = TRUE,
                          !.body = Append(@, line),
                          !.headings = DictSet(@, (Len(st.body) + 1) - 1, stripped)]
        ELSE kept

\* SegStep without the "if in_references" test
SegStep_NoRefMode(st, line) ==
    LET stripped == Strip(line)
    IN  IF is_references_section(stripped)
        THEN [st EXCEPT !.in_references = TRUE,
                        !.in_title_page = FALSE,
                        !.references = Append(@, line)]
        ELSE IF st.in_title_page
        THEN IF \/ is_title_page_content(stripped)
                \/ (~st.body_started /\ Len(st.title_page) < TitlePageMaxLines)
             THEN SegTitle(st, line)
             ELSE SegBody([st EXCEPT !.in_title_page = FALSE,
                                     !.body_started = TRUE], line)
        ELSE SegBody(st, line)

\* one iteration of the loop of extract_document_sections
SegStep(st, line) ==
    LET stripped == Strip(line)
    IN  IF is_references_section(stripped)
        THEN [st EXCEPT !.in_references = TRUE,
                        !.in_title_page = FALSE,
                        !.references = Append(@, line)]
        ELSE IF st.in_references
        THEN [st EXCEPT !.references = Append(@, line)]
        ELSE IF st.in_title_page
        THEN IF \/ is_title_page_content(stripped)
                \/ (~st.body_started /\ Len(st.title_page) < TitlePageMaxLines)
             THEN SegTitle(st, line)
             ELSE SegBody([st EXCEPT !.in_title_page = FALSE,
                                     !.body_started = TRUE], line)
        ELSE SegBody(st, line)

RECURSIVE SegLoop(_, _)
SegLoop(st, lines) ==
    IF lines = <<>> THEN st ELSE SegLoop(SegStep(st, Head(lines)), Tail(lines))

Sections(st) ==
    [title_page |-> st.title_page, body |-> st.body,
     references |-> st.references, headings |-> st.headings]

extract_document_sections(text) == Sections(SegLoop(SegInit, Split(text, "\n")))

reconstruct_document(sections) ==
    LET p1 == IF sections.title_page # <<>>
              THEN <<Join(sections.title_page, "\n")>> ELSE <<>>
        p2 == IF sections.body # <<>>
              THEN Append(p1, Join(sections.body, "\n")) ELSE p1
        p3 == IF sections.references # <<>>
              THEN Append(p2, Join(sections.references, "\n")) ELSE p2
    IN  Join(p3, "\n")

-----------------------------------------------------------------------------
(* Bounds and the inputs drawn from them                                    *)

MaxTail == 3        \* free lines of a document after its padding
MaxPieces == 3      \* pieces a codec text is made of

\* all sequences over S of length 0..n
RECURSIVE SeqsUpTo(_, _)
SeqsUpTo(S, n) ==
    IF n = 0 THEN {<<>>}
    ELSE LET shorter == SeqsUpTo(S, n - 1)
         IN  shorter \cup {Append(q, x) : q \in shorter, x \in S}

RECURSIVE Concat(_)
Concat(ss) == IF ss = <<>> THEN <<>> ELSE Head(ss) \o Concat(Tail(ss))

PadLine == Chars("Line")
SegLineSet ==
    {Chars("Introduction"), Chars("REFERENCES"), Chars("Submitted by Bob"),
     Chars("results (Smith, 2020) were significant."), Chars("2.1 Methods"),
     Chars(" Bibliography "), <<>>}
PadSet == {0, TitlePageMaxLines}
SegDocs ==
    {Join([i \in 1..n |-> PadLine] \o tail, "\n") :
        n \in PadSet, tail \in SeqsUpTo(SegLineSet, MaxTail)}

CodecPieces ==
    {Chars("(Smith, 2020)"), Chars("[1]"), Chars("(Lee & Kim, 2021)"),
     Chars("(Roe, 2020, p. 4)"), Chars(" as shown\n"), Chars("__CITATION_0__")}
CodecTexts == {Concat(q) : q \in SeqsUpTo(CodecPieces, MaxPieces)}

None == <<"none">>

CtlIdle ==
    /\ pc = "off" /\ selected_file = None /\ file_text = None
    /\ rewriter = None /\ target_percentage = 0 /\ result = None
    /\ current_percentage = 0 /\ current_text = None /\ humanised_text = None
    /\ version = 0 /\ files = <<>> /\ written = <<>>
    /\ baseline_percentage = None /\ previous_percentage = None
    /\ rewriteCalls = 0 /\ detectCalls = 0 /\ outcome = "none"
SegIdle ==
    /\ seg_text = None /\ seg_lines = <<>> /\ seg_i = 0 /\ seg = SegInit
    /\ seg_out = None
CodIdle ==
    /\ cod_pc = "off" /\ cod_text = None /\ cod_protected = None
    /\ cod_placeholders = <<>> /\ cod_restored = None

-----------------------------------------------------------------------------
(* extract_document_sections and reconstruct_document, line by line         *)

SegStart ==
    /\ seg_text \in SegDocs
    /\ seg_lines = Split(seg_text, "\n")
    /\ seg_i = 0
    /\ seg = SegInit
    /\ seg_out = None
    /\ CtlIdle /\ CodIdle

\* one iteration of "for i, line in enumerate(lines)"
ClassifyLine ==
    /\ seg_i < Len(seg_lines)
    /\ seg' = SegStep(seg, seg_lines[seg_i + 1])
    /\ seg_i' = seg_i + 1
    /\ UNCHANGED <<seg_text, seg_lines, seg_out, ctlVars, codVars>>

\* "return sections", then reconstruct_document(sections)
Reconstruct ==
    /\ seg_i = Len(seg_lines)
    /\ seg_out = None
    /\ seg_out' = reconstruct_document(Sections(seg))
    /\ UNCHANGED <<seg_text, seg_lines, seg_i, seg, ctlVars, codVars>>

SegNext == ClassifyLine \/ Reconstruct
SpecSeg == SegStart /\ [][SegNext]_vars

-----------------------------------------------------------------------------
(* protect_citations, then restore_citations on its unmodified output       *)

CodStart ==
    /\ cod_pc = "start"
    /\ cod_text \in CodecTexts
    /\ cod_protected = None
    /\ cod_placeholders = <<>>
    /\ cod_restored = None
    /\ CtlIdle /\ SegIdle

Protect ==
    /\ cod_pc = "start"
    /\ LET r == protect_citations(cod_text)
       IN  /\ cod_protected' = r.text
           /\ cod_placeholders' = r.placeholders
    /\ cod_pc' = "protected"
    /\ UNCHANGED <<cod_text, cod_restored, ctlVars, segVars>>

Restore ==
    /\ cod_pc = "protected"
    /\ cod_restored' = restore_citations(cod_protected, cod_placeholders)
    /\ cod_pc' = "restored"
    /\ UNCHANGED <<cod_text, cod_protected, cod_placeholders, ctlVars, segVars>>

CodNext == Protect \/ Restore
SpecCodec == CodStart /\ [][CodNext]_vars

-----------------------------------------------------------------------------
(* The detection oracle and parse_ai_percentage                             *)

\* the value of data["fakePercentage"] in a response
FpAbsent == [t |-> "absent", n |-> 0, s |-> <<>>]
FpNum(n) == [t |-> "num", n |-> n, s |-> <<>>]
FpStr(s) == [t |-> "str", n |-> 0, s |-> s]

\* what requests.post does: status 0 stands for a RequestException
\* (timeout, connection error), otherwise the HTTP status and the JSON body
DetectResponses ==
    {[status |-> 0, success |-> FALSE, fp |-> FpAbsent],
     [status |-> 500, success |-> FALSE, fp |-> FpAbsent],
     [status |-> 200, success |-> FALSE, fp |-> FpAbsent]}
    \cup {[status |-> 200, success |-> TRUE, fp |-> f] :
            f \in {FpNum(10), FpNum(15), FpNum(20), FpNum(30), FpNum(45),
                   FpStr(Chars("20%")), FpStr(Chars("n/a")), FpAbsent}}

\* the dict detect_ai_in_file returns
detect_ai_in_file(resp) ==
    IF resp.status = 0
    THEN [success |-> FALSE, message |-> "exception", fp |-> FpAbsent]
    ELSE IF resp.status = 200
    THEN [success |-> resp.success, message |-> "", fp |-> resp.fp]
    ELSE [success |-> FALSE, message |-> "HTTP", fp |-> FpAbsent]

\* the dict detect_ai_in_text returns
detect_ai_in_text(resp) ==
    IF resp.status = 0
    THEN [success |-> FALSE, message |-> "exception", fp |-> FpAbsent]
    ELSE IF resp.status = 200
    THEN [success |-> resp.success, message |-> "", fp |-> resp.fp]
    ELSE [success |-> FALSE, message |-> "HTTP", fp |-> FpAbsent]

\* float(s) for a string of decimal digits; -1 stands for ValueError
RECURSIVE ParseDigits(_, _)
ParseDigits(s, acc) ==
    IF s = <<>> THEN acc
    ELSE ParseDigits(Tail(s),
            10 * acc + ((CHOOSE i \in 1..10 : DigitChars[i] = Head(s)) - 1))
ParseFloat(s) ==
    IF s # <<>> /\ \A i \in 1..Len(s) : s[i] \in DigitSet
    THEN ParseDigits(s, 0) ELSE -1

\* parse_ai_percentage without the "success" test
parse_ai_percentage_NoFlag(res) ==
    IF res.fp.t = "absent" THEN 0
    ELSE IF res.fp.t = "str"
    THEN LET f == ParseFloat(Strip(ReplaceAll(res.fp.s, <<"%">>, <<>>)))
         IN  IF f = -1 THEN 0 ELSE f
    ELSE res.fp.n

parse_ai_percentage(res) ==
    IF ~res.success THEN -1
    ELSE IF res.fp.t = "absent" THEN 0
    ELSE IF res.fp.t = "str"
    THEN LET f == ParseFloat(Strip(ReplaceAll(res.fp.s, <<"%">>, <<>>)))
         IN  IF f = -1 THEN 0 ELSE f
    ELSE res.fp.n

-----------------------------------------------------------------------------
(* humanise_text and save_text_to_file                                      *)

Rewriters == {"echo", "edit", "damage", "blank"}

\* a placeholder token as a rewriter may alter it
AlteredToken(token) == Lower(token)

\* message.content[0].text: the rewrite oracle's answer to a prompt that
\* carries protected_body.  "echo" returns the body as it is, "edit" adds a
\* sentence, "damage" drops the token of citation 0, alters that of citation 1
\* and leaves the others intact, "blank" returns an empty text
RewriterReply(kind, protected_body) ==
    IF kind = "echo" THEN protected_body
    ELSE IF kind = "edit" THEN protected_body \o Chars("\nMoreover, this holds.")
    ELSE IF kind = "damage"
    THEN ReplaceAll(ReplaceAll(protected_body, Placeholder(0), <<>>),
                    Placeholder(1), AlteredToken(Placeholder(1)))
    ELSE <<>>

\* humanise_text made to rewrite the whole document
humanise_text_WholeDocument(text, kind) ==
    LET prot == protect_citations(text)
    IN  restore_citations(RewriterReply(kind, prot.text), prot.placeholders)

humanise_text(text, kind) ==
    LET sections == extract_document_sections(text)
        body_text == Join(sections.body, "\n")
        prot == protect_citations(body_text)
        humanised_body ==
            restore_citations(RewriterReply(kind, prot.text), prot.placeholders)
    IN  reconstruct_document(
            [sections EXCEPT !.body = Split(humanised_body, "\n")])

\* save_text_to_file with a name that does not carry the version
save_text_to_file_NoVersion(text, original_path, ver) ==
    LET new_name == original_path.stem \o Chars("_humanised")
    IN  IF original_path.suffix = Chars(".txt")
        THEN [path |-> new_name \o original_path.suffix,
              content |-> [fmt |-> "txt", data |-> text]]
        ELSE IF original_path.suffix = Chars(".docx")
        THEN [path |-> new_name \o original_path.suffix,
              content |-> [fmt |-> "docx",
                           data |-> SelectSeq(Split(text, "\n"),
                                              LAMBDA para : Strip(para) # <<>>)]]
        ELSE [path |-> new_name \o Chars(".txt"),
              content |-> [fmt |-> "txt", data |-> text]]

\* the output path and what is written there
save_text_to_file(text, original_path, ver) ==
    LET new_name == original_path.stem \o Chars("_humanised_v") \o IntToStr(ver)
    IN  IF original_path.suffix = Chars(".txt")
        THEN [path |-> new_name \o original_path.suffix,
              content |-> [fmt |-> "txt", data |-> text]]
        ELSE IF original_path.suffix = Chars(".docx")
        THEN [path |-> new_name \o original_path.suffix,
              content |-> [fmt |-> "docx",
                           data |-> SelectSeq(Split(text, "\n"),
                                              LAMBDA para : Strip(para) # <<>>)]]
        ELSE [path |-> new_name \o Chars(".txt"),
              content |-> [fmt |-> "txt", data |-> text]]

Put(f, k, v) == [x \in DOMAIN f \cup {k} |-> IF x = k THEN v ELSE f[x]]

-----------------------------------------------------------------------------
(* main()                                                                   *)

max_iterations == 10

SourceFiles ==
    {[stem |-> Chars("essay"), suffix |-> Chars(".txt"),
      text |-> Chars("My Essay\nIntroduction\nAI is common (Smith, 2020), see [1] and [2].\nReferences\n[1] Smith 2020")],
     [stem |-> Chars("report"), suffix |-> Chars(".docx"),
      text |-> Chars("Water boils (Smith, 2020).\n\nIt cools again.")],
     [stem |-> Chars("notes"), suffix |-> Chars(".pdf"),
      text |-> Chars("1. Overview\nShort notes [2].")],
     [stem |-> Chars("scan"), suffix |-> Chars(".pdf"),
      text |-> Chars(" \n")]}
Targets == {20, 30}

CtlStart ==
    /\ pc = "scan"
    /\ \E f \in SourceFiles :
          /\ selected_file = [stem |-> f.stem, suffix |-> f.suffix]
          /\ file_text = f.text
    /\ rewriter \in Rewriters
    /\ target_percentage \in Targets
    /\ result = None
    /\ current_percentage = None
    /\ current_text = None
    /\ humanised_text = None
    /\ version = None
    /\ files = <<>>
    /\ written = <<>>
    /\ baseline_percentage = None
    /\ previous_percentage = None
    /\ rewriteCalls = 0
    /\ detectCalls = 0
    /\ outcome = "none"
    /\ SegIdle /\ CodIdle

\* the loop test with "version < max_iterations"
LoopGuard_OffByOne ==
    current_percentage > target_percentage /\ version < max_iterations

\* "while current_percentage > target_percentage and version <= max_iterations"
LoopGuard == current_percentage > target_percentage /\ version <= max_iterations

\* "if current_percentage < 0" after a scan
ScanFailed(pct) == pct < 0

\* a re-scan whose failure goes unnoticed
RescanFailed_Never(pct) == FALSE

\* "if current_percentage < 0" after a re-scan
RescanFailed(pct) == pct < 0

\* the initial comparison with "<"
AlreadyBelowTarget_Strict(pct, target) == pct < target

\* "if current_percentage <= target_percentage" after the initial scan
AlreadyBelowTarget(pct, target) == pct <= target

\* the comparison after a re-scan with "<"
ReachedTarget_Strict(pct, target) == pct < target

\* "if current_percentage <= target_percentage" after a re-scan
ReachedTarget(pct, target) == pct <= target

\* "[1] Scanning original file..." up to the two exits that follow it
InitialScan ==
    /\ pc = "scan"
    /\ \E resp \in DetectResponses :
          LET res == detect_ai_in_file(resp)
              pct == parse_ai_percentage(res)
          IN  /\ result' = res
              /\ current_percentage' = pct
              /\ baseline_percentage' = pct
              /\ IF ScanFailed(pct)
                 THEN pc' = "done" /\ outcome' = "OracleFailure"
                 ELSE IF AlreadyBelowTarget(pct, target_percentage)
                 THEN pc' = "done" /\ outcome' = "Success"
                 ELSE pc' = "extract" /\ outcome' = outcome
    /\ detectCalls' = detectCalls + 1
    /\ UNCHANGED <<selected_file, file_text, rewriter, target_percentage,
                   current_text, humanised_text, version, files, written,
                   previous_percentage, rewriteCalls, segVars, codVars>>

\* "[2] Extracting text from file..." up to "version = 1"
ExtractText ==
    /\ pc = "extract"
    /\ current_text' = file_text
    /\ IF Strip(file_text) = <<>>
       THEN pc' = "done" /\ outcome' = "ExtractionError" /\ version' = version
       ELSE pc' = "loop" /\ outcome' = outcome /\ version' = 1
    /\ UNCHANGED <<selected_file, file_text, rewriter, target_percentage, result,
                   current_percentage, humanised_text, files, written, baseline_percentage, previous_percentage,
                   rewriteCalls, detectCalls, segVars, codVars>>

\* the loop test, then humanise_text(current_text); the call of the rewrite
\* oracle either answers or raises, and main() catches nothing
Humanise ==
    /\ pc = "loop"
    /\ LoopGuard
    /\ rewriteCalls' = rewriteCalls + 1
    /\ \E answered \in BOOLEAN :
          IF answered
          THEN /\ humanised_text' = humanise_text(current_text, rewriter)
               /\ pc' = "save"
               /\ outcome' = outcome
          ELSE /\ humanised_text' = humanised_text
               /\ pc' = "done"
               /\ outcome' = "UncaughtException"
    /\ UNCHANGED <<selected_file, file_text, rewriter, target_percentage, result,
                   current_percentage, current_text, version, files, written,
                   baseline_percentage, previous_percentage, detectCalls, segVars, codVars>>

\* save_text_to_file(humanised_text, selected_file, version)
Save ==
    /\ pc = "save"
    /\ LET out == save_text_to_file(humanised_text, selected_file, version)
       IN  /\ files' = Put(files, out.path, out.content)
           /\ written' = Append(written, out.path)
    /\ pc' = "rescan"
    /\ UNCHANGED <<selected_file, file_text, rewriter, target_percentage, result,
                   current_percentage, current_text, humanised_text, version,
                   baseline_percentage, previous_percentage, rewriteCalls, detectCalls, outcome, segVars, codVars>>

\* the text of the next iteration, were the current text kept
NextText_KeepCurrent(current, candidate) == current

\* "current_text = humanised_text": the text of the next iteration
NextText(current, candidate) == candidate

\* the re-scan and the rest of the loop body
Rescan ==
    /\ pc = "rescan"
    /\ \E resp \in DetectResponses :
          LET res == detect_ai_in_text(resp)
              pct == parse_ai_percentage(res)
          IN  /\ result' = res
              /\ current_percentage' = pct
              /\ previous_percentage' = current_percentage
              /\ IF RescanFailed(pct)
                 THEN /\ pc' = "done" /\ outcome' = "OracleFailure"
                      /\ UNCHANGED <<current_text, version>>
                 ELSE IF ReachedTarget(pct, target_percentage)
                 THEN /\ pc' = "done" /\ outcome' = "Success"
                      /\ UNCHANGED <<current_text, version>>
                 ELSE /\ current_text' = NextText(current_text, humanised_text)
                      /\ version' = version + 1
                      /\ pc' = "loop"
                      /\ outcome' = IF version + 1 > max_iterations
                                    THEN "Exhausted" ELSE outcome
    /\ detectCalls' = detectCalls + 1
    /\ UNCHANGED <<selected_file, file_text, rewriter, target_percentage,
                   humanised_text, files, written, baseline_percentage,
                   rewriteCalls, segVars, codVars>>

\* the loop test fails: "Done!"
LoopExit ==
    /\ pc = "loop"
    /\ ~LoopGuard
    /\ pc' = "done"
    /\ UNCHANGED <<selected_file, file_text, rewriter, target_percentage, result,
                   current_percentage, current_text, humanised_text, version,
                   files, written, baseline_percentage, previous_percentage, rewriteCalls, detectCalls, outcome,
                   segVars, codVars>>

Next == InitialScan \/ ExtractText \/ Humanise \/ Save \/ Rescan \/ LoopExit
Spec == CtlStart /\ [][Next]_vars

-----------------------------------------------------------------------------
(* The section classifier: claims                                           *)

\* C1: for every document D, reconstruct_document(extract_document_sections(D))
\* equals D, and title_page + body + references holds every line of D exactly
\* once, in the original order.
C1_RoundTrip ==
    /\ seg_i = Len(seg_lines) =>
          seg.title_page \o seg.body \o seg.references = seg_lines
    /\ seg_out # None => seg_out = seg_text

\* the trimmed, case-folded line equals a references keyword
KeywordLine(line) ==
    \E k \in DOMAIN REFERENCES_KEYWORDS : Lower(Strip(line)) = REFERENCES_KEYWORDS[k]

\* C3: after any number of lines, references is exactly the lines classified
\* so far from the first keyword line on (that line first, every later line
\* verbatim, no earlier line), and is empty while no keyword line was met;
\* the mode the keyword line was met in makes no difference.
C3_ReferencesSuffix ==
    LET K == {i \in 1..seg_i : KeywordLine(seg_lines[i])}
    IN  IF K = {}
        THEN seg.references = <<>> /\ ~seg.in_references
        ELSE LET first == CHOOSE i \in K : \A j \in K : i <= j
             IN  /\ seg.references = SubSeq(seg_lines, first, seg_i)
                 /\ seg.in_references
                 /\ Len(seg.title_page) + Len(seg.body) >= first - 1
                 /\ \A j \in 1..Len(seg.title_page) : ~KeywordLine(seg.title_page[j])
                 /\ \A j \in 1..Len(seg.body) : ~KeywordLine(seg.body[j])

\* the keyword line was met in body mode, after a body line that is no
\* heading, and a heading line follows it
C3_Witness ==
    /\ seg_i = Len(seg_lines)
    /\ Len(seg.title_page) = TitlePageMaxLines
    /\ Len(seg.body) = 1
    /\ ~is_heading(seg.body[1])
    /\ Len(seg.references) = 2
    /\ is_heading(seg.references[2])

\* C12: in title-page mode a line that is no references keyword line and
\* holds no front-matter keyword is retained in title_page whenever title_page
\* holds 15 or fewer lines, and is turned away only when title_page holds more
\* than 15 lines; a line with a front-matter keyword is retained whatever the
\* count.
C12_TitlePageRetention ==
    [][(/\ seg_i < Len(seg_lines) /\ seg_i' = seg_i + 1
        /\ seg.in_title_page
        /\ ~is_references_section(Strip(seg_lines[seg_i + 1])))
       => LET line == seg_lines[seg_i + 1]
          IN  /\ (\/ is_title_page_content(Strip(line))
                  \/ Len(seg.title_page) <= TitlePageMaxLines)
                 => seg'.title_page = Append(seg.title_page, line)
              /\ seg'.title_page = seg.title_page
                 => Len(seg.title_page) > TitlePageMaxLines]_vars

\* C13: a line that in title-page mode is neither a references keyword line
\* nor retained in title_page ends title-page mode and becomes the first line
\* of body, and headings is left as it was, also when the line passes
\* is_heading.
C13_FallThroughNotHeading ==
    [][(/\ seg_i < Len(seg_lines) /\ seg_i' = seg_i + 1
        /\ seg.in_title_page
        /\ ~is_references_section(Strip(seg_lines[seg_i + 1]))
        /\ seg'.title_page = seg.title_page)
       => /\ ~seg'.in_title_page
          /\ seg'.body = <<seg_lines[seg_i + 1]>>
          /\ seg'.headings = seg.headings]_vars

\* the mode the classifier is in
ModeOf(st) ==
    IF st.in_references THEN "references"
    ELSE IF st.in_title_page THEN "titlePage" ELSE "body"

\* the moves titlePage -> body -> references allows
ModeOrder ==
    {<<"titlePage", "titlePage">>, <<"titlePage", "body">>,
     <<"titlePage", "references">>, <<"body", "body">>,
     <<"body", "references">>, <<"references", "references">>}

\* C14: from one classified line to the next the mode stays or moves forward
\* in the order titlePage, body, references; outside title-page mode no line
\* is appended to title_page, and in references mode no line is appended to
\* title_page or body.
C14_ModeForward ==
    [][/\ <<ModeOf(seg), ModeOf(seg')>> \in ModeOrder
       /\ ModeOf(seg) # "titlePage" => seg'.title_page = seg.title_page
       /\ ModeOf(seg) = "references"
          => /\ seg'.body = seg.body
             /\ seg_i' = seg_i + 1
                => seg'.references = Append(seg.references, seg_lines[seg_i + 1])]_vars

\* all three modes were passed through, and a front-matter line met in
\* references mode went to references
C14_Witness ==
    /\ seg_i = Len(seg_lines)
    /\ Len(seg.title_page) = 1
    /\ Len(seg.body) = 1
    /\ Len(seg.references) = 2
    /\ is_title_page_content(Strip(seg.references[2]))

\* C18: every key of headings is an index of body, its value is the trimmed
\* body line at that index, that line passes is_heading, and the keys are in
\* increasing order of insertion.
C18_HeadingsIndexBody ==
    /\ \A k \in DOMAIN seg.headings :
          LET idx == seg.headings[k][1]
          IN  /\ idx \in 0..(Len(seg.body) - 1)
              /\ seg.headings[k][2] = Strip(seg.body[idx + 1])
              /\ is_heading(seg.body[idx + 1])
    /\ \A j, k \in DOMAIN seg.headings :
          j < k => seg.headings[j][1] < seg.headings[k][1]

\* a heading that started the body from title-page mode at index 0 and a
\* heading met in body mode at index 2, a plain line between them
C18_Witness ==
    /\ seg_i = Len(seg_lines)
    /\ Len(seg.title_page) = 1
    /\ Len(seg.body) = 3
    /\ seg.headings = <<<<0, Chars("Introduction")>>, <<2, Chars("2.1 Methods")>>>>

-----------------------------------------------------------------------------
(* The citation codec: claims                                               *)

\* C2: for every text T, restore_citations applied to the unmodified output
\* of protect_citations(T), with the map it returned, yields exactly T.
C2_RoundTrip == cod_pc = "restored" => cod_restored = cod_text

-----------------------------------------------------------------------------
(* The convergence loop: claims                                             *)

\* the detection result carries a number as its score
Scored(res) == res.success /\ res.fp.t = "num"

\* the run has ended and takes no further step
Halted == [][pc # "done"]_vars

\* C4: when no oracle call failed, the first re-score that is <= target
\* (equality included) ends the run with Success in that very step, with
\* version = k in 1..max_iterations, k rewrite calls, k re-scores after the
\* initial scan and k artifacts, and nothing is called afterwards.
C4_SuccessAtFirstHit ==
    /\ [][(/\ pc = "rescan" /\ pc' # "rescan"
           /\ Scored(result') /\ result'.fp.n <= target_percentage)
          => /\ pc' = "done" /\ outcome' = "Success"
             /\ current_percentage' = result'.fp.n
             /\ version' = version /\ version \in 1..max_iterations
             /\ rewriteCalls' = version /\ detectCalls' = version + 1
             /\ Len(written') = version]_vars
    /\ Halted

\* baseline 45, target 20, re-scores 30 then 15: Success with version 2
C4_Witness ==
    /\ pc = "done" /\ outcome = "Success"
    /\ rewriteCalls = 2 /\ detectCalls = 3 /\ version = 2
    /\ target_percentage = 20 /\ baseline_percentage = 45
    /\ previous_percentage = 30 /\ current_percentage = 15

\* C5: a run in which every iteration is re-scored successfully above the
\* target ends only after exactly max_iterations iterations, as Exhausted,
\* with max_iterations rewrite calls and artifacts; the candidate and score
\* held then are those of iteration max_iterations.
C5_ExhaustedAfterMax ==
    /\ (/\ pc = "done" /\ detectCalls >= 1 /\ result.success
        /\ current_percentage > target_percentage
        /\ outcome \notin {"UncaughtException", "ExtractionError"})
       => /\ outcome = "Exhausted"
          /\ rewriteCalls = max_iterations
          /\ detectCalls = max_iterations + 1
          /\ version = max_iterations + 1
          /\ Len(written) = max_iterations
          /\ files[written[max_iterations]] =
                save_text_to_file(humanised_text, selected_file, max_iterations).content
          /\ current_text = humanised_text
    /\ outcome = "Exhausted" => pc \in {"loop", "done"} /\ rewriteCalls = max_iterations
    /\ rewriteCalls <= max_iterations

C5_Witness ==
    /\ pc = "done" /\ outcome = "Exhausted" /\ Len(written) = max_iterations
    /\ current_percentage > previous_percentage

\* C6: a baseline score <= target ends the run at once with Success: nothing
\* is extracted or rewritten, the rewrite oracle is not called, no second
\* detection is made and no artifact is written (version 0).
C6_BaselineBelowTarget ==
    /\ (detectCalls = 1 /\ Scored(result)) => baseline_percentage = result.fp.n
    /\ (detectCalls >= 1 /\ 0 <= baseline_percentage
        /\ baseline_percentage <= target_percentage)
       => /\ pc = "done" /\ outcome = "Success"
          /\ detectCalls = 1 /\ rewriteCalls = 0
          /\ written = <<>> /\ DOMAIN files = {}
          /\ current_text = None /\ humanised_text = None

\* baseline 10, target 20
C6_Witness ==
    /\ pc = "done" /\ outcome = "Success" /\ detectCalls = 1
    /\ Scored(result) /\ result.fp.n = 10 /\ target_percentage = 20
    /\ rewriteCalls = 0

\* C7: a baseline detection without a score (success=false, a non-200 status
\* or a transport error) ends the run with OracleFailure before any rewrite
\* call and before any artifact.
C7_BaselineFailure ==
    (detectCalls = 1 /\ ~result.success)
    => /\ pc = "done" /\ outcome = "OracleFailure"
       /\ rewriteCalls = 0 /\ written = <<>> /\ DOMAIN files = {}
       /\ current_text = None

C7_Witness ==
    /\ pc = "done" /\ outcome = "OracleFailure" /\ detectCalls = 1
    /\ result.message = "exception" /\ rewriteCalls = 0

\* C8: a failed re-score of iteration k ends the run with OracleFailure
\* there: k rewrite calls and k re-scores were made and no more (no retry),
\* and the candidate held is that of iteration k, saved as version k.
C8_RescanFailure ==
    (detectCalls >= 2 /\ ~result.success)
    => /\ pc = "done" /\ outcome = "OracleFailure"
       /\ version = detectCalls - 1
       /\ rewriteCalls = version
       /\ Len(written) = version
       /\ files[written[version]] =
             save_text_to_file(humanised_text, selected_file, version).content

C8_Witness ==
    /\ pc = "done" /\ outcome = "OracleFailure"
    /\ detectCalls = 3 /\ Len(written) = 2 /\ version = 2

\* C9: a failure of either oracle call of an iteration, the rewrite call as
\* well as the detection call, ends the run in the OracleFailure outcome.
C9_EitherCallFailure ==
    (/\ pc = "done"
     /\ \/ rewriteCalls > Len(written)
        \/ (detectCalls >= 1 /\ ~result.success))
    => outcome = "OracleFailure"

\* C10: the artifacts written carry the versions 1, 2, ..., k in that order,
\* each under a name of its own, and no later step changes or removes an
\* artifact written before.
C10_VersionedOutputs ==
    /\ [](/\ \A i \in 1..Len(written) :
               Contains(written[i], Chars("_humanised_v") \o IntToStr(i) \o <<".">>)
          /\ DOMAIN files = Range(written)
          /\ Cardinality(DOMAIN files) = Len(written))
    /\ [][\A f \in DOMAIN files : f \in DOMAIN files' /\ files'[f] = files[f]]_vars

\* two artifacts are on disk and the third iteration's re-score failed
C10_Witness ==
    /\ pc = "done" /\ outcome = "OracleFailure" /\ Len(written) = 3

\* the input of the last rewrite call, as humanise_text takes it apart, the
\* oracle's reply, and the lines of the candidate
LastCall ==
    LET sections == extract_document_sections(current_text)
        prot == protect_citations(Join(sections.body, "\n"))
        lines == Split(humanised_text, "\n")
    IN  [title_page |-> sections.title_page,
         references |-> sections.references,
         placeholders |-> prot.placeholders,
         reply |-> RewriterReply(rewriter, prot.text),
         lines |-> lines,
         body |-> Join(SubSeq(lines, Len(sections.title_page) + 1,
                              Len(lines) - Len(sections.references)), "\n")]

\* C11: whatever the rewrite oracle returned, the candidate's lines are the
\* title-page lines of the current text, then the lines of the
\* citation-restored reply, then the references lines of the current text;
\* title page and references are unchanged and in order.
C11_BodyOnlyReplaced ==
    pc \in {"save", "rescan"}
    => LET c == LastCall
           t == Len(c.title_page)
           r == Len(c.references)
       IN  /\ Len(c.lines) >= t + r + 1
           /\ SubSeq(c.lines, 1, t) = c.title_page
           /\ SubSeq(c.lines, Len(c.lines) - r + 1, Len(c.lines)) = c.references
           /\ c.body = restore_citations(c.reply, c.placeholders)

\* the reply has a sentence the body did not have; the document has a title
\* page and references
C11_Witness ==
    /\ pc = "save" /\ rewriter = "edit" /\ rewriteCalls = 2
    /\ LastCall.title_page # <<>> /\ LastCall.references # <<>>
    /\ Contains(humanised_text, Chars("Moreover, this holds.\nMoreover"))

\* C15: a re-score that succeeds above the target makes the candidate the
\* current text, whatever the score before, and adds 1 to version; the next
\* rewrite call is made for that candidate.
C15_FeedForward ==
    /\ [][(/\ pc = "rescan" /\ pc' # "rescan"
           /\ result'.success /\ current_percentage' > target_percentage)
          => /\ pc' = "loop"
             /\ current_text' = humanised_text
             /\ humanised_text' = humanised_text
             /\ version' = version + 1]_vars
    /\ [][(pc = "loop" /\ pc' = "save" /\ rewriteCalls >= 1)
          => humanised_text' = humanise_text(humanised_text, rewriter)]_vars

\* baseline 30, target 20, re-scores 30 then 45: the second candidate scored
\* worse than the first and than the original, and is the current text
C15_Witness ==
    /\ pc = "loop" /\ rewriteCalls = 2 /\ version = 3
    /\ target_percentage = 20 /\ baseline_percentage = 30
    /\ previous_percentage = 30 /\ current_percentage = 45
    /\ current_text = humanised_text
    /\ current_text # file_text

\* C16: when the reply lacks or alters tokens, the candidate is still made
\* and saved: no token of the map is left in its body, the citation of every
\* token the reply holds intact is there, the citation of a token the reply
\* lacks is not, and an altered token is there as the reply had it.
C16_DamagedTokens ==
    pc \in {"save", "rescan"}
    => LET c == LastCall
       IN  /\ \A i \in DOMAIN c.placeholders :
                LET token == c.placeholders[i][1]
                    citation == c.placeholders[i][2]
                IN  /\ ~Contains(c.body, token)
                    /\ Contains(c.reply, token) => Contains(c.body, citation)
                    /\ ~Contains(c.reply, token) => ~Contains(c.body, citation)
                    /\ Contains(c.reply, AlteredToken(token))
                       => Contains(c.body, AlteredToken(token))
           /\ pc = "rescan"
              => files[written[version]] =
                    save_text_to_file(humanised_text, selected_file, version).content

\* of three tokens the reply dropped the first, altered the second and kept
\* the third; the candidate was saved
C16_Witness ==
    /\ pc = "rescan" /\ rewriter = "damage" /\ rewriteCalls = 1
    /\ Len(LastCall.placeholders) = 3
    /\ ~Contains(LastCall.reply, Placeholder(0))
    /\ ~Contains(humanised_text, Chars("(Smith, 2020)"))
    /\ Contains(humanised_text, AlteredToken(Placeholder(1)))
    /\ Contains(humanised_text, Chars("and [2]."))

\* C17: every run that has ended has ended in Success, Exhausted or
\* OracleFailure, and no run makes more than max_iterations rewrite calls or
\* more than max_iterations + 1 detection calls.
C17_EndsInOneOfThree ==
    /\ pc = "done" => outcome \in {"Success", "Exhausted", "OracleFailure"}
    /\ rewriteCalls <= max_iterations
    /\ detectCalls <= max_iterations + 1

\* C19: with a rewrite oracle that returns the body it was given, every
\* candidate is the text the run started from, line for line.
C19_EchoFixpoint ==
    (pc \in {"save", "rescan", "loop", "done"} /\ rewriter = "echo"
     /\ rewriteCalls > 0 /\ humanised_text # None)
    => /\ humanised_text = file_text
       /\ Len(Split(humanised_text, "\n")) = Len(Split(file_text, "\n"))

\* the response carries a score: a number, or a string float() accepts
HasScore(res) ==
    /\ res.success
    /\ \/ res.fp.t = "num"
       \/ /\ res.fp.t = "str"
          /\ ParseFloat(Strip(ReplaceAll(res.fp.s, <<"%">>, <<>>))) # -1

\* C20: a run that ended in Success had a last detection response with a
\* score, and that score is at most the target; a response without a usable
\* score does not end a run in Success.
C20_SuccessNeedsScore ==
    (pc = "done" /\ outcome = "Success")
    => /\ HasScore(result)
       /\ parse_ai_percentage(result) <= target_percentage

====
